---- MODULE Spec2Model ----
(* The fleet driver and per-host orchestrator of the k8s-setup tool           *)
(* (src/main.go): main's host loop, the five phases it calls, the remote      *)
(* command executor and the status store, as a state machine whose steps are  *)
(* the program's blocking points (argument check, configuration load,         *)
(* directory creation, connection, one remote command, one file write).       *)
EXTENDS Integers, Sequences, FiniteSets, TLC

(* ------------------------------------------------------------------------ *)
(* Bounds and input sets                                                     *)
(* ------------------------------------------------------------------------ *)

\* Largest number of host addresses on the command line.
MaxHosts == 2

\* Host addresses the command line may name (a list may repeat one).
Addrs == {"10.0.0.1", "10.0.0.2"}

SeqsUpTo(S, n) == UNION {[1..m -> S] : m \in 0..n}

\* os.Args: the program name alone, or the program name, a configuration
\* path and zero or more host addresses.
ArgVectors ==
    {<<"k8s-setup">>} \cup
    {<<"k8s-setup", "config.json">> \o hosts : hosts \in SeqsUpTo(Addrs, MaxHosts)}

(* ------------------------------------------------------------------------ *)
(* Values                                                                    *)
(* ------------------------------------------------------------------------ *)

\* The zero time.Time, an instant before the process started, and the
\* instant time.Now() returns.
ZeroTime == 0
Now == 2
Earlier == Now - 1

\* Text is a sequence of tokens; "" is the empty sequence, fmt.Sprintf is
\* concatenation of the format's literal pieces and the arguments.

\* What the environment can answer to each blocking call.
ConfigOutcomes  == {"ok", "unreadable", "malformed"}
MkdirOutcomes   == {"ok", "fail"}
ConnectOutcomes == {"ok", "keyunreadable", "keymalformed", "dialfail"}
CommandOutcomes == {"ok", "nosession", "cmdfail"}
WriteOutcomes   == {"ok", "openfail", "writefail"}

\* Output a remote command produced before it ended.
CapturedOutput == "<remote output>"

(* ------------------------------------------------------------------------ *)
(* Status record and status store                                            *)
(* ------------------------------------------------------------------------ *)

\* &SetupStatus{VMIP: ip, StartTime: time.Now(), CurrentStep: "Initializing",
\*              Status: "In Progress"}; the other fields are zero values.
NewStatus(ip) ==
    [VMIP           |-> ip,
     StartTime      |-> Now,
     EndTime        |-> ZeroTime,
     CurrentStep    |-> "Initializing",
     Status         |-> "In Progress",
     Error          |-> <<>>,
     CompletedSteps |-> <<>>]

\* json.MarshalIndent of a SetupStatus: "error" carries omitempty, a nil
\* slice is written as null.
MarshalIndent(s) ==
    [vmIP           |-> s.VMIP,
     startTime      |-> s.StartTime,
     endTime        |-> s.EndTime,
     currentStep    |-> s.CurrentStep,
     status         |-> s.Status,
     hasError       |-> s.Error # <<>>,
     error          |-> s.Error,
     completedSteps |-> [isNull |-> s.CompletedSteps = <<>>,
                         items  |-> s.CompletedSteps]]

\* A file of the local filesystem: absent, truncated by a write that failed
\* after the file was opened, or holding the data of the last full write.
AbsentFile    == [kind |-> "absent",  data |-> <<>>]
TruncatedFile == [kind |-> "partial", data |-> <<>>]
FullFile(d)   == [kind |-> "full",    data |-> <<d>>]

\* Variant: the file is opened for appending, the data is added at its end.
WriteFileAppends(old, d, outcome) ==
    CASE outcome = "ok"        -> [kind |-> "full", data |-> Append(old.data, d)]
      [] outcome = "openfail"  -> old
      [] outcome = "writefail" -> [kind |-> "partial", data |-> old.data]

\* Variant: the file is created exclusively, one that exists is left alone.
WriteFileKeepsExisting(old, d, outcome) ==
    CASE old.kind # "absent"   -> old
      [] outcome = "ok"        -> [kind |-> "full", data |-> <<d>>]
      [] outcome = "openfail"  -> old
      [] outcome = "writefail" -> [kind |-> "partial", data |-> <<>>]

\* ioutil.WriteFile(name, data, 0644): create or truncate, then write.
WriteFile(old, d, outcome) ==
    CASE outcome = "ok"        -> FullFile(d)
      [] outcome = "openfail"  -> old
      [] outcome = "writefail" -> TruncatedFile

\* A status file left in the status directory by an earlier invocation of
\* the tool (one whose connection to the host was refused).
StaleFile(ip) ==
    FullFile(MarshalIndent(
        [NewStatus(ip) EXCEPT !.StartTime = Earlier, !.Status = "Failed",
                              !.Error = <<"SSH connection failed: ",
                                          "dial tcp: connect: connection refused">>]))

\* The status directory when the process starts: empty (or not there yet),
\* or holding the files of an earlier invocation.
InitialDirs == {[a \in Addrs |-> AbsentFile], [a \in Addrs |-> StaleFile(a)]}

\* Variant: one file name for every host.
SharedStatusFileName(s) == CHOOSE a \in Addrs : TRUE

\* filepath.Join("status", ip + ".json")
StatusFileName(s) == s.VMIP

\* saveStatus: the status directory after the call.
saveStatus(dir, s, outcome) ==
    [dir EXCEPT ![StatusFileName(s)] = WriteFile(@, MarshalIndent(s), outcome)]

(* ------------------------------------------------------------------------ *)
(* Remote executor and the phases' command lists                             *)
(* ------------------------------------------------------------------------ *)

\* Errors of the ssh and os packages, as opaque texts.
SessionError  == "ssh: failed to open session"
ExitError     == "Process exited with status 1"
DialError     == "dial tcp: connect: connection refused"
KeyReadError  == "open keyfile: no such file or directory"
KeyParseError == "ssh: no key found"
FileError     == "open: permission denied"

\* Variant: a session that cannot be opened is reported as success.
executeCommandSwallowsSessionError(command, outcome) ==
    CASE outcome = "cmdfail" -> [output |-> <<"<remote output>">>,
                                 err    |-> <<"command failed: ", "Process exited with status 1">>]
      [] OTHER               -> [output |-> <<>>, err |-> <<>>]

\* Variant: the exit status of the remote command is not looked at.
executeCommandIgnoresExitStatus(command, outcome) ==
    CASE outcome = "nosession" -> [output |-> <<>>, err |-> <<"ssh: failed to open session">>]
      [] OTHER                 -> [output |-> <<"<remote output>">>, err |-> <<>>]

\* executeCommand(client, command): the captured output and the error
\* (<<>> is nil). A session that cannot be opened yields no output.
executeCommand(command, outcome) ==
    CASE outcome = "nosession" -> [output |-> <<>>, err |-> <<SessionError>>]
      [] outcome = "cmdfail"   -> [output |-> <<CapturedOutput>>,
                                   err    |-> <<"command failed: ", ExitError>>]
      [] outcome = "ok"        -> [output |-> <<CapturedOutput>>, err |-> <<>>]

\* connectSSH(vmConfig): the error (<<>> is nil, with a client returned).
connectSSH(outcome) ==
    CASE outcome = "keyunreadable" -> <<"failed to read key file: ", KeyReadError>>
      [] outcome = "keymalformed"  -> <<"failed to parse private key: ", KeyParseError>>
      [] outcome = "dialfail"      -> <<DialError>>
      [] outcome = "ok"            -> <<>>

RequirementCommands ==
    << "uname -a", "free -h", "df -h", "nproc", "cat /etc/os-release" >>

KubernetesCommands ==
    << "apt-get update && apt-get upgrade -y",
       "apt-get install -y apt-transport-https ca-certificates curl software-properties-common",
       "curl -fsSL https://download.docker.com/linux/ubuntu/gpg | apt-key add -",
       "add-apt-repository deb [arch=amd64] https://download.docker.com/linux/ubuntu $(lsb_release -cs) stable",
       "apt-get update && apt-get install -y docker-ce docker-ce-cli containerd.io",
       "mkdir -p /etc/docker",
       "cat > /etc/docker/daemon.json << EOF ... EOF",
       "systemctl daemon-reload",
       "systemctl restart docker",
       "curl -s https://packages.cloud.google.com/apt/doc/apt-key.gpg | apt-key add -",
       "echo deb https://apt.kubernetes.io/ kubernetes-xenial main > /etc/apt/sources.list.d/kubernetes.list",
       "apt-get update && apt-get install -y kubelet=<version> kubeadm=<version> kubectl=<version>",
       "kubeadm init --pod-network-cidr=<podCIDR> --service-cidr=<serviceCIDR>",
       "mkdir -p $HOME/.kube && cp -i /etc/kubernetes/admin.conf $HOME/.kube/config && chown $(id -u):$(id -g) $HOME/.kube/config",
       "kubectl apply -f https://docs.projectcalico.org/manifests/calico.yaml" >>

ValuesFileName == "prometheus-values.yaml"
InstallCommand ==
    "helm install prometheus prometheus-community/kube-prometheus-stack -f prometheus-values.yaml --namespace monitoring"

\* setupMonitoring, step by step: a remote command or the local write of the
\* values file, each with the text its failure is wrapped in.
MonitoringSteps ==
    << [kind |-> "cmd", cmd |-> "kubectl create namespace monitoring",
        wrap |-> "failed to create monitoring namespace: "],
       [kind |-> "cmd", cmd |-> "curl https://raw.githubusercontent.com/helm/helm/master/scripts/get-helm-3 | bash",
        wrap |-> "failed to setup Helm: "],
       [kind |-> "cmd", cmd |-> "helm repo add prometheus-community https://prometheus-community.github.io/helm-charts",
        wrap |-> "failed to setup Helm: "],
       [kind |-> "cmd", cmd |-> "helm repo update",
        wrap |-> "failed to setup Helm: "],
       [kind |-> "write", cmd |-> ValuesFileName,
        wrap |-> "failed to create Prometheus values file: "],
       [kind |-> "cmd", cmd |-> InstallCommand,
        wrap |-> "failed to install Prometheus stack: "],
       [kind |-> "cmd", cmd |-> "kubectl create secret generic grafana-admin --from-literal=admin-password=<adminPassword> -n monitoring",
        wrap |-> "failed to configure Grafana: "],
       [kind |-> "cmd", cmd |-> "kubectl patch deployment prometheus-grafana -n monitoring --type=json -p=[...]",
        wrap |-> "failed to configure Grafana: "],
       [kind |-> "cmd", cmd |-> "kubectl wait --for=condition=ready pod -l app.kubernetes.io/name=prometheus -n monitoring --timeout=300s",
        wrap |-> "failed to wait for pods: "],
       [kind |-> "cmd", cmd |-> "kubectl wait --for=condition=ready pod -l app.kubernetes.io/name=grafana -n monitoring --timeout=300s",
        wrap |-> "failed to wait for pods: "] >>

\* The values document rendered from the configuration.
PrometheusValues == "prometheus: prometheusSpec: retention: <retentionTime> storageClassName: <storageClass>"

VerifyCommands ==
    << "kubectl get nodes", "kubectl get pods -A", "kubectl get services -A",
       "kubectl get deployments -A" >>

BackupCommands ==
    << "mkdir -p /root/k8s-backup",
       "kubectl get all -A -o yaml > /root/k8s-backup/all-resources.yaml",
       "kubectl get configmaps -A -o yaml > /root/k8s-backup/configmaps.yaml",
       "kubectl get secrets -A -o yaml > /root/k8s-backup/secrets.yaml",
       "tar -czf /root/k8s-backup/k8s-backup.tar.gz /root/k8s-backup" >>

\* The error each phase returns for a failed command (err # <<>>).
checkSystemRequirementsError(cmd, r) == <<"system check failed: ">> \o r.err
setupKubernetesError(cmd, r) ==
    <<"failed to execute command '", cmd, "': ">> \o r.err \o <<"\nOutput: ">> \o r.output
setupMonitoringError(step, err) == <<step.wrap>> \o err
verifySetupError(cmd, r) == <<"verification failed for command '", cmd, "': ">> \o r.err
createBackupError(cmd, r) == <<"backup failed: ">> \o r.err

(* ------------------------------------------------------------------------ *)
(* State                                                                     *)
(* ------------------------------------------------------------------------ *)

VARIABLES
    pc,         \* position in main: args, config, mkdir, loop, connect,
                \* reqcheck, kube, monitoring, verify, backup, done, fatal
    argv,       \* os.Args
    i,          \* index of the host the loop is at (0 before the loop)
    k,          \* index of the next command of the phase that is running
    heap,       \* the SetupStatus allocated by each iteration, in order
    disk,       \* the status directory: address -> file
    valuesFile, \* prometheus-values.yaml in the local working directory
    remoteValues,
                \* prometheus-values.yaml in the working directory of the
                \* ssh login on the current host, as the chart-install
                \* command of the current run found it
    clients,    \* per iteration: its ssh client (none, open, closed) and
                \* how often Close was called on it
    deferred,   \* main's stack of deferred client.Close() calls
    log,        \* the console, one entry per line written
    executed,   \* remote commands issued during the current host's run
    saves,      \* saveStatus calls made during the current host's run
    result      \* what the connection and each phase of the current host's
                \* run returned: none (not attempted), ok, fail

vars == <<pc, argv, i, k, heap, disk, valuesFile, remoteValues, clients,
          deferred, log, executed, saves, result>>

\* ips := os.Args[2:]
ips == SubSeq(argv, 3, Len(argv))

PhaseNames == <<"RequirementCheck", "ClusterInstall", "MonitoringInstall",
                "Verify", "Backup">>

\* The working directory of the ssh login on a host is not a thing the
\* program writes to: whether it holds prometheus-values.yaml is for the
\* host to say, and the model asks when the chart-install command runs.
NotLooked == "notlooked"
RemoteFileStates == {"absent", "present"}

NoResult == [conn |-> "none", RequirementCheck |-> "none", ClusterInstall |-> "none",
             MonitoringInstall |-> "none", Verify |-> "none", Backup |-> "none"]

Init ==
    /\ pc = "args"
    /\ argv \in ArgVectors
    /\ i = 0
    /\ k = 0
    /\ heap = <<>>
    /\ disk \in InitialDirs
    /\ valuesFile = AbsentFile
    /\ remoteValues = NotLooked
    /\ clients = <<>>
    /\ deferred = <<>>
    /\ log = <<>>
    /\ executed = <<>>
    /\ saves = <<>>
    /\ result = NoResult

(* ------------------------------------------------------------------------ *)
(* Startup                                                                   *)
(* ------------------------------------------------------------------------ *)

\* Variant: the message is printed and main goes on (Printf for Fatalf).
FatalfReturns == "mkdir"

\* logger.Fatal / logger.Fatalf: the line is written and the process exits
\* with status 1; the position main is at afterwards.
Fatalf == "fatal"

\* if len(os.Args) < 2 { logger.Fatal(usage) }
UsageError(args) == Len(args) < 2

ParseArgs ==
    /\ pc = "args"
    /\ IF UsageError(argv)
       THEN /\ log' = Append(log, <<"Usage: ./k8s-setup <config.json> <ip1> <ip2> <ip3> ...">>)
            /\ pc' = Fatalf
       ELSE /\ log' = log
            /\ pc' = "config"
    /\ UNCHANGED <<argv, i, k, heap, disk, valuesFile, remoteValues, clients, deferred,
                   executed, saves, result>>

\* loadConfig(path): the error (<<>> is nil).
loadConfig(outcome) ==
    CASE outcome = "unreadable" -> <<"failed to read config file: ", FileError>>
      [] outcome = "malformed"  -> <<"failed to parse config file: ", "invalid character">>
      [] outcome = "ok"         -> <<>>

LoadConfig ==
    /\ pc = "config"
    /\ \E o \in ConfigOutcomes :
         LET err == loadConfig(o) IN
         IF err # <<>>
         THEN /\ log' = Append(log, <<"Failed to load configuration: ">> \o err)
              /\ pc' = Fatalf
         ELSE /\ log' = log
              /\ pc' = "mkdir"
    /\ UNCHANGED <<argv, i, k, heap, disk, valuesFile, remoteValues, clients, deferred,
                   executed, saves, result>>

\* os.MkdirAll("status", 0755), then the loop starts at the first address.
MkdirStatus ==
    /\ pc = "mkdir"
    /\ \E o \in MkdirOutcomes :
         IF o = "fail"
         THEN /\ log' = Append(log, <<"Failed to create status directory: ", FileError>>)
              /\ pc' = Fatalf
              /\ UNCHANGED <<i, clients>>
         ELSE /\ log' = log
              /\ pc' = "loop"
              /\ i' = 1
              /\ clients' = [j \in 1..Len(ips) |-> [state |-> "none", closes |-> 0]]
    /\ UNCHANGED <<argv, k, heap, disk, valuesFile, remoteValues, deferred,
                   executed, saves, result>>

(* ------------------------------------------------------------------------ *)
(* The host loop                                                             *)
(* ------------------------------------------------------------------------ *)

\* The record of the iteration the loop is at.
status == heap[i]

\* for _, ip := range ips { status := &SetupStatus{...}; logger.status = status;
\* logger.Printf("Starting setup for VM %s", ip) ...
BeginHost ==
    /\ pc = "loop"
    /\ i <= Len(ips)
    /\ heap' = Append(heap, NewStatus(ips[i]))
    /\ log' = Append(log, <<"Starting setup for VM ", ips[i]>>)
    /\ executed' = <<>>
    /\ saves' = <<>>
    /\ result' = NoResult
    /\ remoteValues' = NotLooked
    /\ pc' = "connect"
    /\ UNCHANGED <<argv, i, k, disk, valuesFile, clients, deferred>>

\* Variant: the state is set but the error text is not recorded.
FailedStatusNoError(s, prefix, err) == [s EXCEPT !.Status = "Failed"]

\* Variant: the error text is the prefix alone, the cause is dropped.
FailedStatusDropsCause(s, prefix, err) ==
    [s EXCEPT !.Status = "Failed", !.Error = <<prefix>>]

\* Variant: the error text is recorded but the state is left as it was.
FailedStatusKeepsState(s, prefix, err) == [s EXCEPT !.Error = <<prefix>> \o err]

\* status.Status = "Failed"; status.Error = fmt.Sprintf(prefix + "%v", err)
FailedStatus(s, prefix, err) ==
    [s EXCEPT !.Status = "Failed", !.Error = <<prefix>> \o err]

\* Variant: `break` in place of `continue`, the loop is left.
Break(n) == Len(ips) + 1

\* Variant: the index is not advanced, the loop takes the same host again.
Retry(n) == n

\* `continue`: the index of the iteration that follows iteration n.
Continue(n) == n + 1

\* Variant: a failed save ends the loop.
AfterSaveStopsOnError(n, so) == IF so = "ok" THEN Continue(n) ELSE Len(ips) + 1

\* saveStatus(status) as a statement: the error it returns is not looked at,
\* and the loop goes on to the iteration after n whatever the outcome was.
AfterSave(n, so) == Continue(n)

\* The failure branch of main, the same after the connection and after each
\* of the first four phases: mark the record Failed, save it, continue.
FailHost(prefix, err) ==
    \E so \in WriteOutcomes :
      LET s == FailedStatus(status, prefix, err) IN
      /\ heap' = [heap EXCEPT ![i] = s]
      /\ disk' = saveStatus(disk, s, so)
      /\ saves' = Append(saves, [rec |-> s, outcome |-> so])
      /\ i' = AfterSave(i, so)
      /\ k' = 0
      /\ pc' = "loop"

\* client, err := connectSSH(vmConfig); if err != nil {...}; defer client.Close()
Connect ==
    /\ pc = "connect"
    /\ \E o \in ConnectOutcomes :
         LET err == connectSSH(o) IN
         IF err # <<>>
         THEN /\ FailHost("SSH connection failed: ", err)
              /\ result' = [result EXCEPT !.conn = "fail"]
              /\ UNCHANGED <<clients, deferred>>
         ELSE /\ clients' = [clients EXCEPT ![i].state = "open"]
              /\ deferred' = <<i>> \o deferred
              /\ result' = [result EXCEPT !.conn = "ok"]
              /\ pc' = "reqcheck"
              /\ k' = 1
              /\ UNCHANGED <<i, heap, disk, saves>>
    /\ UNCHANGED <<argv, valuesFile, remoteValues, log, executed>>

\* The record of one remote command issued.
Issued(phase, cmd, o) == [phase |-> phase, cmd |-> cmd, outcome |-> o]

\* main between checkSystemRequirements and setupKubernetes.
AfterRequirementCheck(s) == [s EXCEPT !.CurrentStep = "Setting up Kubernetes"]

\* if err := checkSystemRequirements(client); err != nil {...}
\* One step is one command of the phase; the last one returns to main.
CheckSystemRequirements ==
    /\ pc = "reqcheck"
    /\ \E o \in CommandOutcomes :
         LET cmd == RequirementCommands[k]
             r   == executeCommand(cmd, o) IN
         /\ executed' = Append(executed, Issued("RequirementCheck", cmd, o))
         /\ IF r.err # <<>>
            THEN /\ FailHost("System requirements check failed: ",
                             checkSystemRequirementsError(cmd, r))
                 /\ result' = [result EXCEPT !.RequirementCheck = "fail"]
                 /\ log' = log
            ELSE /\ log' = Append(log, <<"System check output for ", cmd, ":\n">> \o r.output)
                 /\ IF k < Len(RequirementCommands)
                    THEN /\ k' = k + 1
                         /\ UNCHANGED <<pc, heap, result>>
                    ELSE /\ heap' = [heap EXCEPT ![i] = AfterRequirementCheck(@)]
                         /\ result' = [result EXCEPT !.RequirementCheck = "ok"]
                         /\ pc' = "kube"
                         /\ k' = 1
                 /\ UNCHANGED <<i, disk, saves>>
    /\ UNCHANGED <<argv, valuesFile, remoteValues, clients, deferred>>

\* status.CompletedSteps = append(status.CompletedSteps, "kubernetes");
\* status.CurrentStep = "Setting up monitoring"
AfterKubernetes(s) ==
    [s EXCEPT !.CompletedSteps = Append(@, "kubernetes"),
              !.CurrentStep = "Setting up monitoring"]

\* if err := setupKubernetes(client, config); err != nil {...}
SetupKubernetes ==
    /\ pc = "kube"
    /\ \E o \in CommandOutcomes :
         LET cmd == KubernetesCommands[k]
             r   == executeCommand(cmd, o) IN
         /\ executed' = Append(executed, Issued("ClusterInstall", cmd, o))
         /\ IF r.err # <<>>
            THEN /\ FailHost("Kubernetes setup failed: ", setupKubernetesError(cmd, r))
                 /\ result' = [result EXCEPT !.ClusterInstall = "fail"]
            ELSE /\ IF k < Len(KubernetesCommands)
                    THEN /\ k' = k + 1
                         /\ UNCHANGED <<pc, heap, result>>
                    ELSE /\ heap' = [heap EXCEPT ![i] = AfterKubernetes(@)]
                         /\ result' = [result EXCEPT !.ClusterInstall = "ok"]
                         /\ pc' = "monitoring"
                         /\ k' = 1
                 /\ UNCHANGED <<i, disk, saves>>
    /\ UNCHANGED <<argv, valuesFile, remoteValues, clients, deferred, log>>

\* status.CompletedSteps = append(status.CompletedSteps, "monitoring");
\* status.CurrentStep = "Verifying setup"
AfterMonitoring(s) ==
    [s EXCEPT !.CompletedSteps = Append(@, "monitoring"),
              !.CurrentStep = "Verifying setup"]

\* if err := setupMonitoring(client, config); err != nil {...}
\* A step is a remote command or the local write of the values file.
SetupMonitoring ==
    /\ pc = "monitoring"
    /\ LET step == MonitoringSteps[k] IN
       \E o \in (IF step.kind = "cmd" THEN CommandOutcomes ELSE WriteOutcomes),
          f \in (IF step.cmd = InstallCommand THEN RemoteFileStates ELSE {remoteValues}) :
         LET err == IF step.kind = "cmd"
                    THEN executeCommand(step.cmd, o).err
                    ELSE IF o = "ok" THEN <<>> ELSE <<FileError>> IN
         /\ remoteValues' = f
         /\ IF step.kind = "cmd"
            THEN /\ executed' = Append(executed, Issued("MonitoringInstall", step.cmd, o))
                 /\ valuesFile' = valuesFile
            ELSE /\ executed' = executed
                 /\ valuesFile' = WriteFile(valuesFile, PrometheusValues, o)
         /\ IF err # <<>>
            THEN /\ FailHost("Monitoring setup failed: ", setupMonitoringError(step, err))
                 /\ result' = [result EXCEPT !.MonitoringInstall = "fail"]
            ELSE /\ IF k < Len(MonitoringSteps)
                    THEN /\ k' = k + 1
                         /\ UNCHANGED <<pc, heap, result>>
                    ELSE /\ heap' = [heap EXCEPT ![i] = AfterMonitoring(@)]
                         /\ result' = [result EXCEPT !.MonitoringInstall = "ok"]
                         /\ pc' = "verify"
                         /\ k' = 1
                 /\ UNCHANGED <<i, disk, saves>>
    /\ UNCHANGED <<argv, clients, deferred, log>>

\* status.CompletedSteps = append(status.CompletedSteps, "verification");
\* status.CurrentStep = "Creating backup"
AfterVerify(s) ==
    [s EXCEPT !.CompletedSteps = Append(@, "verification"),
              !.CurrentStep = "Creating backup"]

\* if err := verifySetup(client); err != nil {...}
VerifySetup ==
    /\ pc = "verify"
    /\ \E o \in CommandOutcomes :
         LET cmd == VerifyCommands[k]
             r   == executeCommand(cmd, o) IN
         /\ executed' = Append(executed, Issued("Verify", cmd, o))
         /\ IF r.err # <<>>
            THEN /\ FailHost("Verification failed: ", verifySetupError(cmd, r))
                 /\ result' = [result EXCEPT !.Verify = "fail"]
                 /\ log' = log
            ELSE /\ log' = Append(log, <<"Verification output for ", cmd, ":\n">> \o r.output)
                 /\ IF k < Len(VerifyCommands)
                    THEN /\ k' = k + 1
                         /\ UNCHANGED <<pc, heap, result>>
                    ELSE /\ heap' = [heap EXCEPT ![i] = AfterVerify(@)]
                         /\ result' = [result EXCEPT !.Verify = "ok"]
                         /\ pc' = "backup"
                         /\ k' = 1
                 /\ UNCHANGED <<i, disk, saves>>
    /\ UNCHANGED <<argv, valuesFile, remoteValues, clients, deferred>>

\* Variant: the backup step is recorded whatever createBackup returned.
AfterBackupAlways(s, err) == [s EXCEPT !.CompletedSteps = Append(@, "backup")]

\* if err := createBackup(client); err != nil { warning } else
\* { status.CompletedSteps = append(status.CompletedSteps, "backup") }
AfterBackup(s, err) ==
    IF err # <<>> THEN s ELSE [s EXCEPT !.CompletedSteps = Append(@, "backup")]

\* Variant: the end time is stamped but the state is left as it was.
CompletedStatusKeepsState(s) == [s EXCEPT !.EndTime = Now]

\* status.Status = "Completed"; status.EndTime = time.Now()
CompletedStatus(s) == [s EXCEPT !.Status = "Completed", !.EndTime = Now]

\* createBackup and the end of the iteration: whatever the backup returned,
\* the record is marked Completed and saved, and the loop moves on.
CreateBackup ==
    /\ pc = "backup"
    /\ \E o \in CommandOutcomes :
         LET cmd == BackupCommands[k]
             r   == executeCommand(cmd, o) IN
         /\ executed' = Append(executed, Issued("Backup", cmd, o))
         /\ IF r.err = <<>> /\ k < Len(BackupCommands)
            THEN /\ k' = k + 1
                 /\ UNCHANGED <<pc, i, heap, disk, saves, result, log>>
            ELSE \E so \in WriteOutcomes :
                   LET err == IF r.err # <<>> THEN createBackupError(cmd, r) ELSE <<>>
                       s   == CompletedStatus(AfterBackup(status, err)) IN
                   /\ heap' = [heap EXCEPT ![i] = s]
                   /\ result' = [result EXCEPT !.Backup = IF err # <<>> THEN "fail" ELSE "ok"]
                   /\ disk' = saveStatus(disk, s, so)
                   /\ saves' = Append(saves, [rec |-> s, outcome |-> so])
                   /\ log' = (IF err # <<>>
                              THEN Append(log, <<"Warning: Backup creation failed: ">> \o err)
                              ELSE log)
                             \o << <<"Setup completed successfully for VM ", s.VMIP>> >>
                   /\ i' = AfterSave(i, so)
                   /\ k' = 0
                   /\ pc' = "loop"
    /\ UNCHANGED <<argv, valuesFile, remoteValues, clients, deferred>>

\* Variant: only the call deferred last is run.
RunDeferredLastOnly(cl, stack) ==
    [j \in DOMAIN cl |->
        IF stack # <<>> /\ stack[1] = j
        THEN [state |-> "closed", closes |-> cl[j].closes + 1]
        ELSE cl[j]]

\* The deferred client.Close() calls, run last-in first-out when main returns.
RunDeferred(cl, stack) ==
    [j \in DOMAIN cl |->
        IF \E n \in 1..Len(stack) : stack[n] = j
        THEN [state |-> "closed",
              closes |-> cl[j].closes + Cardinality({n \in 1..Len(stack) : stack[n] = j})]
        ELSE cl[j]]

\* The loop is over: main returns.
Return ==
    /\ pc = "loop"
    /\ i > Len(ips)
    /\ clients' = RunDeferred(clients, deferred)
    /\ deferred' = <<>>
    /\ pc' = "done"
    /\ UNCHANGED <<argv, i, k, heap, disk, valuesFile, remoteValues, log, executed, saves, result>>

Next ==
    \/ ParseArgs
    \/ LoadConfig
    \/ MkdirStatus
    \/ BeginHost
    \/ Connect
    \/ CheckSystemRequirements
    \/ SetupKubernetes
    \/ SetupMonitoring
    \/ VerifySetup
    \/ CreateBackup
    \/ Return

Spec == Init /\ [][Next]_vars

\* Every blocking call of the program returns (connections and commands are
\* bounded by the configured timeout), so the program keeps taking steps.
FairSpec == Spec /\ WF_vars(Next)

TypeOK ==
    /\ pc \in {"args", "config", "mkdir", "loop", "connect", "reqcheck", "kube",
               "monitoring", "verify", "backup", "done", "fatal"}
    /\ i \in 0..(Len(ips) + 1)
    /\ Len(heap) <= Len(ips)

(* ------------------------------------------------------------------------ *)
(* Vocabulary of the properties                                              *)
(* ------------------------------------------------------------------------ *)

\* A text holds a token.
Contains(text, tok) == \E n \in 1..Len(text) : text[n] = tok

\* A host's run has ended: the loop is back at its head, or main returned.
RunEnded == pc \in {"loop", "done"} /\ Len(heap) > 0

\* The record of the run that ended last (or is under way).
LastRecord == heap[Len(heap)]

\* The last saveStatus call of the current run wrote the whole file.
LastSaveOk == Len(saves) > 0 /\ saves[Len(saves)].outcome = "ok"

\* The connection and the four mandatory phases all succeeded.
MandatoryOk(r) ==
    /\ r.conn = "ok"
    /\ r.RequirementCheck = "ok"
    /\ r.ClusterInstall = "ok"
    /\ r.MonitoringInstall = "ok"
    /\ r.Verify = "ok"

\* Position in the pipeline of the phase a completed-step name stands for.
StepPhaseIndex(step) ==
    CASE step = "requirements" -> 1
      [] step = "kubernetes"   -> 2
      [] step = "monitoring"   -> 3
      [] step = "verification" -> 4
      [] step = "backup"       -> 5
      [] OTHER                 -> 6

\* Position in the pipeline of the phase an error text reports as failed
\* (0 is the connection, before every phase).
FailedPhaseIndex(error) ==
    CASE error[1] = "SSH connection failed: "             -> 0
      [] error[1] = "System requirements check failed: "  -> 1
      [] error[1] = "Kubernetes setup failed: "           -> 2
      [] error[1] = "Monitoring setup failed: "           -> 3
      [] error[1] = "Verification failed: "               -> 4
      [] OTHER                                            -> 6

\* Position of the step of the current run that failed, by what the
\* connection and the phases returned.
FailedIndexByResult(r) ==
    CASE r.conn = "fail"              -> 0
      [] r.RequirementCheck = "fail"  -> 1
      [] r.ClusterInstall = "fail"    -> 2
      [] r.MonitoringInstall = "fail" -> 3
      [] r.Verify = "fail"            -> 4
      [] OTHER                        -> 6

\* The documents in the status directory that a full write left there.
DiskDocs == {disk[a].data[1] : a \in {b \in Addrs : disk[b].kind = "full"}}

\* The records handed to saveStatus during the current run.
SavedRecords == {saves[n].rec : n \in 1..Len(saves)}

(* ------------------------------------------------------------------------ *)
(* C1                                                                        *)
(* ------------------------------------------------------------------------ *)

\* C1: when a host's run has ended, its record, which is the record handed to
\* the last save and, if that write succeeded, the content of the host's
\* status file, has state Completed if and only if the connection and the
\* phases RequirementCheck, ClusterInstall, MonitoringInstall and Verify all
\* succeeded; what Backup returned plays no part.
C1_CompletedIffMandatoryOk ==
    RunEnded =>
        /\ (LastRecord.Status = "Completed") <=> MandatoryOk(result)
        /\ Len(saves) > 0
        /\ saves[Len(saves)].rec = LastRecord
        /\ LastSaveOk =>
             /\ disk[LastRecord.VMIP].kind = "full"
             /\ (disk[LastRecord.VMIP].data[1].status = "Completed")
                    <=> MandatoryOk(result)

\* A run whose backup failed ended Completed and was persisted.
C1_Witness ==
    /\ RunEnded
    /\ MandatoryOk(result)
    /\ result.Backup = "fail"
    /\ LastSaveOk
    /\ disk[LastRecord.VMIP].data[1].status = "Completed"

(* ------------------------------------------------------------------------ *)
(* C2                                                                        *)
(* ------------------------------------------------------------------------ *)

FailedRecordOk(st, error, steps) ==
    st = "Failed" =>
        /\ error # <<>>
        /\ \A n \in 1..Len(steps) : StepPhaseIndex(steps[n]) < FailedPhaseIndex(error)

\* C2: every record in memory, every record handed to saveStatus and every
\* document on disk with state Failed has a non-empty error, and its
\* completed steps name only phases before the one that failed; for the
\* current run the phase the error names is the phase that returned the
\* failure.
C2_FailedHasErrorAndEarlierStepsOnly ==
    /\ \A j \in 1..Len(heap) :
         FailedRecordOk(heap[j].Status, heap[j].Error, heap[j].CompletedSteps)
    /\ \A r \in SavedRecords :
         /\ FailedRecordOk(r.Status, r.Error, r.CompletedSteps)
         /\ r.Status = "Failed" => FailedPhaseIndex(r.Error) = FailedIndexByResult(result)
    /\ \A d \in DiskDocs :
         FailedRecordOk(d.status, d.error, d.completedSteps.items)

\* A host failed in verification after two recorded steps, and was persisted.
C2_Witness ==
    /\ RunEnded
    /\ result.Verify = "fail"
    /\ LastSaveOk
    /\ disk[LastRecord.VMIP].data[1].status = "Failed"
    /\ Len(disk[LastRecord.VMIP].data[1].completedSteps.items) = 2

(* ------------------------------------------------------------------------ *)
(* C3                                                                        *)
(* ------------------------------------------------------------------------ *)

\* C3 (as claimed): every record handed to saveStatus with state Failed has
\* its end time set.
C3_FailedHasEndTime ==
    \A r \in SavedRecords : r.Status = "Failed" => r.EndTime # ZeroTime

(* ------------------------------------------------------------------------ *)
(* C4                                                                        *)
(* ------------------------------------------------------------------------ *)

MandatorySteps == {"requirements", "kubernetes", "monitoring", "verification"}

\* C4 (as claimed): every record with state Completed has an empty error, an
\* end time, and completed steps naming each of the four mandatory phases;
\* when the backup succeeded too, the steps are the five phases in order.
C4_CompletedListsEveryMandatoryPhase ==
    \A j \in 1..Len(heap) :
        heap[j].Status = "Completed" =>
            /\ heap[j].Error = <<>>
            /\ heap[j].EndTime # ZeroTime
            /\ \A m \in MandatorySteps : Contains(heap[j].CompletedSteps, m)
            /\ (j = Len(heap) /\ result.Backup = "ok") =>
                   /\ Len(heap[j].CompletedSteps) = Len(PhaseNames)
                   /\ \A n \in 1..Len(heap[j].CompletedSteps) :
                          StepPhaseIndex(heap[j].CompletedSteps[n]) = n

(* ------------------------------------------------------------------------ *)
(* C5                                                                        *)
(* ------------------------------------------------------------------------ *)

\* Position of a phase in the pipeline.
PhaseIndex(phase) ==
    CASE phase = "RequirementCheck"  -> 1
      [] phase = "ClusterInstall"    -> 2
      [] phase = "MonitoringInstall" -> 3
      [] phase = "Verify"            -> 4
      [] phase = "Backup"            -> 5

\* C5: in a host's run the remote commands are issued phase by phase in the
\* order RequirementCheck, ClusterInstall, MonitoringInstall, Verify, Backup;
\* a command of a phase is issued only when every earlier phase has returned
\* success; and a failed command of one of the first four phases is the last
\* command issued on that host.
C5_PhasesInOrderAndStopOnFailure ==
    \A m \in 1..Len(executed) :
        /\ m > 1 => PhaseIndex(executed[m - 1].phase) <= PhaseIndex(executed[m].phase)
        /\ \A q \in 1..(PhaseIndex(executed[m].phase) - 1) :
             result[PhaseNames[q]] = "ok"
        /\ (executed[m].outcome # "ok" /\ executed[m].phase # "Backup") => m = Len(executed)

\* A run stopped at a failed command of the cluster installation: the
\* requirement check had run in full and nothing was issued afterwards.
C5_Witness ==
    /\ RunEnded
    /\ result.ClusterInstall = "fail"
    /\ Len(executed) > Len(RequirementCommands) + 1
    /\ executed[Len(executed)].phase = "ClusterInstall"

(* ------------------------------------------------------------------------ *)
(* C6                                                                        *)
(* ------------------------------------------------------------------------ *)

\* The record of a run of host ip in which every phase, Backup included,
\* succeeds.
FullSuccessRecord(ip) ==
    CompletedStatus(AfterBackup(AfterVerify(AfterMonitoring(AfterKubernetes(
        AfterRequirementCheck(NewStatus(ip))))), <<>>))

WithoutBackup(steps) == SelectSeq(steps, LAMBDA x : x # "backup")

\* C6: when the connection and every phase through Verify succeed and Backup
\* fails, the run ends with state Completed, an empty error, an end time, and
\* the completed steps of a fully successful run minus the backup step; the
\* record handed to the final save is that record, and the status file holds
\* it when the write succeeds.
C6_BackupFailureIsNotFatal ==
    (RunEnded /\ MandatoryOk(result) /\ result.Backup = "fail") =>
        /\ LastRecord.Status = "Completed"
        /\ LastRecord.Error = <<>>
        /\ LastRecord.EndTime # ZeroTime
        /\ LastRecord.CompletedSteps =
               WithoutBackup(FullSuccessRecord(LastRecord.VMIP).CompletedSteps)
        /\ Len(LastRecord.CompletedSteps) + 1 =
               Len(FullSuccessRecord(LastRecord.VMIP).CompletedSteps)
        /\ Len(saves) > 0
        /\ saves[Len(saves)].rec = LastRecord
        /\ LastSaveOk => disk[LastRecord.VMIP] = FullFile(MarshalIndent(LastRecord))

\* The backup failed at its last command and the Completed record is on disk.
C6_Witness ==
    /\ RunEnded
    /\ MandatoryOk(result)
    /\ result.Backup = "fail"
    /\ Len(executed) > 0
    /\ executed[Len(executed)].cmd = BackupCommands[Len(BackupCommands)]
    /\ LastSaveOk
    /\ disk[LastRecord.VMIP] = FullFile(MarshalIndent(LastRecord))
    /\ ~Contains(LastRecord.CompletedSteps, "backup")

(* ------------------------------------------------------------------------ *)
(* C7                                                                        *)
(* ------------------------------------------------------------------------ *)

Terminal(s) == s.Status \in {"Completed", "Failed"}

\* Hosts are taken in list order, a host starts only when every host before
\* it has reached a terminal state, a run that ended handed its terminal
\* record to saveStatus (and the file holds it when the write succeeds), and
\* main returns only when every host of the list has been run.
FleetOrder ==
    /\ Len(heap) <= Len(ips)
    /\ \A j \in 1..Len(heap) :
         /\ heap[j].VMIP = ips[j]
         /\ j < Len(heap) => Terminal(heap[j])
    /\ RunEnded =>
         /\ Terminal(LastRecord)
         /\ Len(saves) > 0
         /\ saves[Len(saves)].rec = LastRecord
         /\ LastSaveOk => disk[LastRecord.VMIP] = FullFile(MarshalIndent(LastRecord))
    /\ pc = "done" => Len(heap) = Len(ips)

\* C7: whatever the hosts' outcomes, the host loop once entered runs every
\* host of the list to a terminal state, in list order, and then returns: a
\* failed connection or phase of one host never keeps a later host from
\* being processed.
C7_FleetContinuesOnError ==
    /\ []FleetOrder
    /\ (pc = "loop" /\ i = 1) ~> (pc = "done" /\ Len(heap) = Len(ips))

\* Main returned after a first host that failed and a second that completed.
C7_Witness ==
    /\ pc = "done"
    /\ Len(heap) = MaxHosts
    /\ heap[1].Status = "Failed"
    /\ heap[Len(heap)].Status = "Completed"

(* ------------------------------------------------------------------------ *)
(* C8                                                                        *)
(* ------------------------------------------------------------------------ *)

\* The fresh part of a record that has just been created.
Fresh(s) == s.Status = "In Progress" /\ s.CompletedSteps = <<>> /\ s.Error = <<>>

\* C8: a step of the run of the host at address a changes no record in
\* memory that belongs to another address and no status file of another
\* address, and the record a run starts with is fresh (In Progress, no
\* completed steps, no error) whatever happened to the hosts before it.
C8_HostIsolation ==
    [][ /\ \A j \in 1..Len(heap) :
             (pc \notin {"loop"} /\ heap[j].VMIP # ips[i]) => heap'[j] = heap[j]
        /\ \A b \in Addrs :
             (pc \notin {"args", "config", "mkdir", "loop"} /\ b # ips[i])
                 => disk'[b] = disk[b]
        /\ \A j \in 1..Len(heap) : pc = "loop" => heap'[j] = heap[j]
        /\ pc \in {"args", "config", "mkdir", "loop"} => disk' = disk
        /\ Len(heap') > Len(heap) =>
             /\ Len(heap') = Len(heap) + 1
             /\ Fresh(heap'[Len(heap')])
             /\ heap'[Len(heap')].VMIP = ips[i]
      ]_vars

\* Two hosts at different addresses, the first failed and is on disk, the
\* second has completed and is on disk too.
C8_Witness ==
    /\ RunEnded
    /\ Len(heap) = MaxHosts
    /\ heap[1].VMIP # heap[Len(heap)].VMIP
    /\ heap[1].Status = "Failed"
    /\ disk[heap[1].VMIP] = FullFile(MarshalIndent(heap[1]))
    /\ heap[Len(heap)].Status = "Completed"
    /\ disk[heap[Len(heap)].VMIP] = FullFile(MarshalIndent(heap[Len(heap)]))

(* ------------------------------------------------------------------------ *)
(* C9                                                                        *)
(* ------------------------------------------------------------------------ *)

InPhase == pc \in {"reqcheck", "kube", "monitoring", "verify", "backup"}

\* C9 (as claimed): once a phase has succeeded and its name has been appended
\* to the completed steps, the record has been saved before the next phase
\* starts: while a phase runs, the last record handed to saveStatus lists the
\* steps completed so far.
C9_SavedAfterEveryPhase ==
    (InPhase /\ status.CompletedSteps # <<>>) =>
        /\ Len(saves) > 0
        /\ saves[Len(saves)].rec.CompletedSteps = status.CompletedSteps

(* ------------------------------------------------------------------------ *)
(* C10                                                                       *)
(* ------------------------------------------------------------------------ *)

OpenClients == {j \in DOMAIN clients : clients[j].state = "open"}

\* C10 (as claimed): while a host's run is under way the only connection
\* open is that host's own, the connections of the hosts before it having
\* been closed when their runs ended, and none is open once main has
\* returned: at most one connection is open at any time.
C10_ConnectionReleasedAtEndOfRun ==
    /\ Cardinality(OpenClients) <= 1
    /\ (pc = "connect" \/ InPhase) => \A j \in OpenClients : j = i
    /\ pc = "done" => OpenClients = {}

(* ------------------------------------------------------------------------ *)
(* C11                                                                       *)
(* ------------------------------------------------------------------------ *)

\* The texts connectSSH can return as a failure.
ConnectionErrors == {connectSSH(o) : o \in ConnectOutcomes \ {"ok"}}

\* text ends with the tokens of tail.
EndsWith(text, tail) ==
    /\ Len(text) >= Len(tail)
    /\ SubSeq(text, Len(text) - Len(tail) + 1, Len(text)) = tail

\* C11: when the connection to a host fails the run ends at once: no remote
\* command is issued, no client is opened, the record is Failed with no
\* completed step, an error that holds the text connectSSH returned, and the
\* current step still "Initializing"; that record is handed to saveStatus
\* (once) and is the content of the status file when the write succeeds.
C11_ConnectionFailureFailsHostAtOnce ==
    (result.conn = "fail") =>
        /\ RunEnded
        /\ executed = <<>>
        /\ clients[Len(heap)].state = "none"
        /\ LastRecord.Status = "Failed"
        /\ LastRecord.CompletedSteps = <<>>
        /\ \E e \in ConnectionErrors : EndsWith(LastRecord.Error, e)
        /\ LastRecord.CurrentStep = "Initializing"
        /\ Len(saves) = 1
        /\ saves[1].rec = LastRecord
        /\ LastSaveOk => disk[LastRecord.VMIP] = FullFile(MarshalIndent(LastRecord))

\* The connection to the second host was refused after the first host had
\* completed, and the Failed record is on disk.
C11_Witness ==
    /\ result.conn = "fail"
    /\ Len(heap) = MaxHosts
    /\ heap[1].Status = "Completed"
    /\ Contains(LastRecord.Error, DialError)
    /\ LastSaveOk
    /\ disk[LastRecord.VMIP].data[1].status = "Failed"
    /\ disk[LastRecord.VMIP].data[1].completedSteps.isNull

(* ------------------------------------------------------------------------ *)
(* C12                                                                       *)
(* ------------------------------------------------------------------------ *)

\* The steps name the first Len(steps) phases of the pipeline, in order:
\* no name twice, none before a phase that precedes it, none without every
\* phase that precedes it.
PipelinePrefix(steps) == \A n \in 1..Len(steps) : StepPhaseIndex(steps[n]) = n

\* C12 (as claimed): in every record, in memory, handed to saveStatus or on
\* disk, the completed steps are a duplicate-free prefix of the pipeline
\* RequirementCheck, ClusterInstall, MonitoringInstall, Verify, Backup in
\* that order, and a step of a record in memory only ever extends them by
\* one name at the end.
C12_CompletedStepsArePipelinePrefix ==
    [][ /\ \A j \in 1..Len(heap) : PipelinePrefix(heap[j].CompletedSteps)
        /\ \A r \in SavedRecords : PipelinePrefix(r.CompletedSteps)
        /\ \A d \in DiskDocs : PipelinePrefix(d.completedSteps.items)
        /\ \A j \in 1..Len(heap) :
             \/ heap'[j].CompletedSteps = heap[j].CompletedSteps
             \/ /\ Len(heap'[j].CompletedSteps) = Len(heap[j].CompletedSteps) + 1
                /\ SubSeq(heap'[j].CompletedSteps, 1, Len(heap[j].CompletedSteps))
                       = heap[j].CompletedSteps
      ]_vars

(* ------------------------------------------------------------------------ *)
(* C13                                                                       *)
(* ------------------------------------------------------------------------ *)

\* The process has ended: main returned (exit status 0) or exited fatally
\* (exit status 1).
Exited == pc \in {"done", "fatal"}

\* C13 (as claimed): an invocation with a configuration path and no host
\* address ends with a non-zero exit status, and without any host having
\* been processed.
C13_NoHostAddressIsUsageError ==
    (Len(argv) = 2 /\ Exited) =>
        /\ pc = "fatal"
        /\ heap = <<>>
        /\ saves = <<>>
        /\ disk \in InitialDirs

(* ------------------------------------------------------------------------ *)
(* C14                                                                       *)
(* ------------------------------------------------------------------------ *)

\* loadConfig returned an error: main wrote the line that reports it.
ConfigFailed == \E n \in 1..Len(log) : log[n][1] = "Failed to load configuration: "

\* C14: when the configuration file cannot be read or parsed the process
\* is at its fatal exit, and no host was contacted: no record was created,
\* no connection opened, no remote command issued, no status file written.
C14_ConfigErrorIsFatalBeforeAnyHost ==
    ConfigFailed =>
        /\ pc = "fatal"
        /\ i = 0
        /\ heap = <<>>
        /\ clients = <<>>
        /\ deferred = <<>>
        /\ executed = <<>>
        /\ saves = <<>>
        /\ disk \in InitialDirs
        /\ valuesFile = AbsentFile

\* A malformed configuration with two host addresses on the command line.
C14_Witness ==
    /\ Len(ips) = MaxHosts
    /\ ConfigFailed
    /\ Contains(log[Len(log)], "failed to parse config file: ")
    /\ pc = "fatal"

(* ------------------------------------------------------------------------ *)
(* C15                                                                       *)
(* ------------------------------------------------------------------------ *)

\* The step name main records for a phase.
StepNames == [ClusterInstall |-> "kubernetes", MonitoringInstall |-> "monitoring",
              Verify |-> "verification", Backup |-> "backup"]

\* The state and the completed steps a run ends with, as a function of what
\* the connection and the phases returned and of nothing else.
ExpectedState(r) == IF MandatoryOk(r) THEN "Completed" ELSE "Failed"
ExpectedSteps(r) ==
    LET recorded == SelectSeq(<<"ClusterInstall", "MonitoringInstall", "Verify", "Backup">>,
                              LAMBDA p : r[p] = "ok")
    IN  [n \in 1..Len(recorded) |-> StepNames[recorded[n]]]

\* C15: whatever the outcome of each save, the record in memory after the
\* save is the record that was handed to saveStatus, its terminal state and
\* completed steps are those the connection and phase results determine, and
\* the loop moves on: every host of the list before the loop's position has
\* been run, and main returns only after the last one.
C15_SaveFailureChangesNothingInMemory ==
    /\ RunEnded =>
         /\ Len(saves) > 0
         /\ LastRecord = saves[Len(saves)].rec
         /\ LastRecord.Status = ExpectedState(result)
         /\ LastRecord.CompletedSteps = ExpectedSteps(result)
    /\ pc = "loop" => i = Len(heap) + 1
    /\ pc = "done" => Len(heap) = Len(ips)
    /\ \A j \in 1..Len(heap) : heap[j].VMIP = ips[j]

\* Two hosts at different addresses, the save of the first (Failed) left a
\* truncated file, the save of the second (Completed) failed too, and main
\* returned.
C15_Witness ==
    /\ pc = "done"
    /\ Len(heap) = MaxHosts
    /\ heap[1].VMIP # LastRecord.VMIP
    /\ heap[1].Status = "Failed"
    /\ disk[heap[1].VMIP].kind = "partial"
    /\ LastRecord.Status = "Completed"
    /\ saves[Len(saves)].outcome = "openfail"

(* ------------------------------------------------------------------------ *)
(* C16                                                                       *)
(* ------------------------------------------------------------------------ *)

\* Some console line holds every token of text.
Logged(text) ==
    \E n \in 1..Len(log) : \A m \in 1..Len(text) : Contains(log[n], text[m])

\* The status file of the record holds the record's error.
ErrorPersisted(s) ==
    /\ disk[s.VMIP].kind = "full"
    /\ disk[s.VMIP].data[1].hasError
    /\ disk[s.VMIP].data[1].error = s.Error

\* C16 (as claimed): when a host's run has ended, every failure that occurred
\* in it is in the host's status file or on the console: the connection or
\* phase failure that made the host Failed, the backup failure, and the
\* failure of the save itself, which is logged.
C16_NoErrorSilentlyDiscarded ==
    RunEnded =>
        /\ LastRecord.Status = "Failed" =>
               (LastSaveOk /\ ErrorPersisted(LastRecord)) \/ Logged(LastRecord.Error)
        /\ result.Backup = "fail" => Logged(<<"Warning: Backup creation failed: ">>)
        /\ ~LastSaveOk => Logged(<<FileError>>)

(* ------------------------------------------------------------------------ *)
(* C17                                                                       *)
(* ------------------------------------------------------------------------ *)

\* The reason the run's failed command was reported with: the error of the
\* Failed record, or for Backup the warning line on the console.
ReasonHolds(e, tok) ==
    IF e.phase = "Backup"
    THEN \E n \in 1..Len(log) :
            /\ log[n][1] = "Warning: Backup creation failed: "
            /\ Contains(log[n], tok)
    ELSE Contains(LastRecord.Error, tok)

\* C17 (as claimed): when a run has ended on a failed command of any phase,
\* the failure reason holds the text of that command and, when the command
\* ran and produced output, the captured output.
C17_FailureReasonHasCommandAndOutput ==
    (RunEnded /\ Len(executed) > 0 /\ executed[Len(executed)].outcome # "ok") =>
        LET e == executed[Len(executed)] IN
        /\ ReasonHolds(e, e.cmd)
        /\ e.outcome = "cmdfail" => ReasonHolds(e, CapturedOutput)

(* ------------------------------------------------------------------------ *)
(* C18                                                                       *)
(* ------------------------------------------------------------------------ *)

\* Position in the pipeline of the phase a current-step text names (0 is
\* the marker set before the pipeline starts).
CurrentStepPhase(step) ==
    CASE step = "Initializing"          -> 0
      [] step = "Setting up Kubernetes" -> 2
      [] step = "Setting up monitoring" -> 3
      [] step = "Verifying setup"       -> 4
      [] step = "Creating backup"       -> 5
      [] OTHER                          -> 6

\* Position in the pipeline of the phase main is running.
RunningPhase ==
    CASE pc = "reqcheck"   -> 1
      [] pc = "kube"       -> 2
      [] pc = "monitoring" -> 3
      [] pc = "verify"     -> 4
      [] pc = "backup"     -> 5
      [] OTHER             -> 0

\* C18 (as claimed): while a phase runs the record's current step names that
\* phase (the requirement check included, once the connection succeeded),
\* and a record made Failed by a phase names the phase that failed as its
\* current step, never the pre-pipeline marker or an earlier phase.
C18_CurrentStepNamesRunningPhase ==
    /\ InPhase => CurrentStepPhase(status.CurrentStep) = RunningPhase
    /\ (RunEnded /\ LastRecord.Status = "Failed" /\ result.conn = "ok") =>
           CurrentStepPhase(LastRecord.CurrentStep) = FailedIndexByResult(result)

(* ------------------------------------------------------------------------ *)
(* The status store on its own                                               *)
(* ------------------------------------------------------------------------ *)

\* Largest number of saveStatus calls in a row.
MaxSaves == 3

\* Records main hands to saveStatus: of a refused connection, of a failed
\* verification, of a run without and with a successful backup.
SampleRecords ==
    UNION {{ FailedStatus(NewStatus(a), "SSH connection failed: ", <<DialError>>),
             FailedStatus(AfterMonitoring(AfterKubernetes(AfterRequirementCheck(NewStatus(a)))),
                          "Verification failed: ",
                          verifySetupError(VerifyCommands[1],
                                           executeCommand(VerifyCommands[1], "cmdfail"))),
             CompletedStatus(AfterVerify(AfterMonitoring(AfterKubernetes(
                 AfterRequirementCheck(NewStatus(a)))))),
             CompletedStatus(AfterBackup(AfterVerify(AfterMonitoring(AfterKubernetes(
                 AfterRequirementCheck(NewStatus(a))))), <<>>)) } : a \in Addrs}

\* A status directory as a process finds it, and no call made yet.
StoreInit ==
    /\ pc = "store"
    /\ argv = <<"k8s-setup", "config.json">>
    /\ i = 0
    /\ k = 0
    /\ heap = <<>>
    /\ disk \in InitialDirs
    /\ valuesFile = AbsentFile
    /\ remoteValues = NotLooked
    /\ clients = <<>>
    /\ deferred = <<>>
    /\ log = <<>>
    /\ executed = <<>>
    /\ saves = <<>>
    /\ result = NoResult

\* One call saveStatus(status), with any record and any outcome of the
\* write; here saves keeps every call.
StoreSave ==
    /\ pc = "store"
    /\ Len(saves) < MaxSaves
    /\ \E s \in SampleRecords, so \in WriteOutcomes :
         /\ disk' = saveStatus(disk, s, so)
         /\ saves' = Append(saves, [rec |-> s, outcome |-> so])
    /\ UNCHANGED <<pc, argv, i, k, heap, valuesFile, remoteValues, clients, deferred, log,
                   executed, result>>

StoreNext == StoreSave

StoreSpec == StoreInit /\ [][StoreNext]_vars

(* ------------------------------------------------------------------------ *)
(* C19                                                                       *)
(* ------------------------------------------------------------------------ *)

\* C19: a save whose write succeeds leaves in the host's file exactly the
\* marshalled record it was given, whatever the file held before (nothing, a
\* file of an earlier invocation, a truncated file, an earlier record);
\* saving a record whose marshalled form the file already holds leaves the
\* directory as it was; and no save touches the file of another host.
C19_SaveReplacesAndIsIdempotent ==
    [][ Len(saves') > Len(saves) =>
          LET sv == saves'[Len(saves')]
              a  == sv.rec.VMIP IN
          /\ sv.outcome = "ok" => disk'[a] = FullFile(MarshalIndent(sv.rec))
          /\ (sv.outcome = "ok" /\ disk[a] = FullFile(MarshalIndent(sv.rec))) => disk' = disk
          /\ \A b \in Addrs \ {a} : disk'[b] = disk[b]
      ]_vars

\* The same record was saved twice in a row after a different record for
\* the same host, every write succeeded, and the file holds that record.
C19_Witness ==
    /\ pc = "store"
    /\ Len(saves) = MaxSaves
    /\ \A n \in 1..Len(saves) : saves[n].outcome = "ok"
    /\ saves[1].rec # saves[Len(saves)].rec
    /\ saves[1].rec.VMIP = saves[Len(saves)].rec.VMIP
    /\ saves[Len(saves) - 1].rec = saves[Len(saves)].rec
    /\ disk[saves[Len(saves)].rec.VMIP] = FullFile(MarshalIndent(saves[Len(saves)].rec))

(* ------------------------------------------------------------------------ *)
(* C20                                                                       *)
(* ------------------------------------------------------------------------ *)

\* C20: in every step, a record's state changes only from In Progress to
\* Completed or to Failed; a record that is Completed or Failed is not
\* changed at all any more; and saveStatus is called in a run only with the
\* record that the same step has just made terminal, so at most once per
\* run and never again after it.
C20_RecordMovesForwardOnly ==
    [][ /\ \A j \in 1..Len(heap) :
             /\ Terminal(heap[j]) => heap'[j] = heap[j]
             /\ heap'[j].Status # heap[j].Status =>
                    heap[j].Status = "In Progress" /\ Terminal(heap'[j])
        /\ Len(heap') >= Len(heap)
        /\ (saves' # saves /\ saves' # <<>>) =>
             /\ saves = <<>>
             /\ Len(saves') = 1
             /\ ~Terminal(heap[Len(heap)])
             /\ Terminal(heap'[Len(heap)])
             /\ saves'[1].rec = heap'[Len(heap)]
      ]_vars

\* A first host Completed, then a second host Failed in the cluster
\* installation, each saved once.
C20_Witness ==
    /\ RunEnded
    /\ Len(heap) = MaxHosts
    /\ heap[1].Status = "Completed"
    /\ LastRecord.Status = "Failed"
    /\ result.ClusterInstall = "fail"
    /\ Len(saves) = 1

(* ------------------------------------------------------------------------ *)
(* C21                                                                       *)
(* ------------------------------------------------------------------------ *)

\* The remote commands of setupMonitoring, in the order of its steps.
MonitoringCommands ==
    LET cmds == SelectSeq(MonitoringSteps, LAMBDA st : st.kind = "cmd")
    IN  [n \in 1..Len(cmds) |-> cmds[n].cmd]

\* The listed commands of a phase.
PhaseCommands(phase) ==
    CASE phase = "RequirementCheck"  -> RequirementCommands
      [] phase = "ClusterInstall"    -> KubernetesCommands
      [] phase = "MonitoringInstall" -> MonitoringCommands
      [] phase = "Verify"            -> VerifyCommands
      [] phase = "Backup"            -> BackupCommands

\* The commands a phase has issued in the current run, in order of issue.
PhaseIssued(phase) == SelectSeq(executed, LAMBDA e : e.phase = phase)

\* C21: in a host's run the commands each phase has issued are the first
\* ones of its list, in the listed order and each once; every command but
\* the one issued last succeeded; and when the command issued last failed,
\* by its exit status or because no session could be opened, its phase has
\* returned an error and the run is over, so nothing is issued after it.
C21_CommandsInOrderOnceStopAtFirstFailure ==
    /\ \A n \in 1..Len(PhaseNames) :
         LET cmds == PhaseCommands(PhaseNames[n])
             xs   == PhaseIssued(PhaseNames[n]) IN
         /\ Len(xs) <= Len(cmds)
         /\ \A m \in 1..Len(xs) : xs[m].cmd = cmds[m]
    /\ \A n \in 1..(Len(executed) - 1) : executed[n].outcome = "ok"
    /\ (Len(executed) > 0 /\ executed[Len(executed)].outcome # "ok") =>
         /\ RunEnded
         /\ result[executed[Len(executed)].phase] = "fail"

\* The third command of the cluster installation could not open a session:
\* the run ended there, after the five requirement commands and three of the
\* fifteen installation commands.
C21_Witness ==
    /\ RunEnded
    /\ Len(PhaseIssued("RequirementCheck")) = Len(RequirementCommands)
    /\ Len(PhaseIssued("ClusterInstall")) = 3
    /\ Len(executed) = Len(RequirementCommands) + 3
    /\ executed[Len(executed)].outcome = "nosession"
    /\ result.ClusterInstall = "fail"

(* ------------------------------------------------------------------------ *)
(* C22                                                                       *)
(* ------------------------------------------------------------------------ *)

\* The chart-install command has been issued in the current run.
InstallIssued == \E n \in 1..Len(executed) : executed[n].cmd = InstallCommand

\* The current run's monitoring phase failed at the write of the values file.
ValuesWriteFailed ==
    /\ result.MonitoringInstall = "fail"
    /\ Contains(LastRecord.Error, "failed to create Prometheus values file: ")

\* The values document is in place locally whenever the chart-install
\* command has been issued, and a failed write of it ends the phase with
\* the chart-install command not issued.
ValuesWrittenBeforeInstall ==
    /\ InstallIssued => valuesFile = FullFile(PrometheusValues)
    /\ (Len(heap) > 0 /\ ValuesWriteFailed) =>
         /\ ~InstallIssued
         /\ RunEnded
         /\ LastRecord.Status = "Failed"

\* C22: in the monitoring phase the values document is written before the
\* chart-install command is issued, a failed write ends the phase without
\* that command, and when the chart-install command runs, on the host, the
\* file prometheus-values.yaml it names is there, in the host's filesystem.
C22_ValuesFileWhereInstallRuns ==
    /\ ValuesWrittenBeforeInstall
    /\ InstallIssued => remoteValues = "present"

(* ------------------------------------------------------------------------ *)
(* C23                                                                       *)
(* ------------------------------------------------------------------------ *)

\* A host's run is under way: its record exists and the iteration has not
\* come back to the head of the loop.
RunUnderWay == pc = "connect" \/ InPhase

\* The file of an address is not what the process can have found when it
\* started: this process wrote it (records of this process start at Now,
\* the files found start at Earlier) or truncated it.
WrittenByThisProcess(a) == disk[a] \notin {AbsentFile, StaleFile(a)}

\* saveStatus is called once per run, in the step that ends the run and
\* with the terminal record, and no status file holds the state In Progress.
SavedOnceWhenTerminal ==
    /\ RunUnderWay => saves = <<>>
    /\ RunEnded => /\ Len(saves) = 1
                   /\ saves[1].rec = LastRecord
                   /\ Terminal(LastRecord)
    /\ \A a \in Addrs : disk[a].kind = "full" => disk[a].data[1].status # "In Progress"

\* C23 (as claimed): the status store is written once per host run, when the
\* run reaches a terminal state; no status file holds the state In Progress;
\* and a host whose run has not reached a terminal state, because it is
\* under way or has not begun, has no status file written by this process.
C23_NoFileBeforeRunIsTerminal ==
    /\ SavedOnceWhenTerminal
    /\ \A a \in Addrs :
         (\/ \A j \in 1..Len(heap) : heap[j].VMIP # a
          \/ RunUnderWay /\ LastRecord.VMIP = a)
            => ~WrittenByThisProcess(a)

\* C23 (amended): the same, the last part for a host none of whose runs in
\* this process has reached a terminal state; an address listed twice has,
\* during its second run, the file its first run wrote.
C23_NoFileBeforeFirstRunIsTerminal ==
    /\ SavedOnceWhenTerminal
    /\ \A a \in Addrs :
         (\A j \in 1..Len(heap) : heap[j].VMIP = a => ~Terminal(heap[j]))
            => ~WrittenByThisProcess(a)

\* The first host's run has ended and its file is written; the second
\* host, another address, is in its cluster installation and has in the
\* directory what the process found there, a file of an earlier invocation.
C23_Witness ==
    /\ pc = "kube"
    /\ Len(heap) = MaxHosts
    /\ heap[1].VMIP # status.VMIP
    /\ Terminal(heap[1])
    /\ disk[heap[1].VMIP] = FullFile(MarshalIndent(heap[1]))
    /\ disk[status.VMIP] = StaleFile(status.VMIP)
    /\ saves = <<>>

(* ------------------------------------------------------------------------ *)
(* C24                                                                       *)
(* ------------------------------------------------------------------------ *)

\* The n-th address of the host list has occurred earlier in the list.
Repeated(n) == \E j \in 1..(n - 1) : ips[j] = ips[n]

\* C24: for an address that the host list repeats, every later occurrence
\* starts with a new record and nothing carried over from the earlier run,
\* goes through a run of its own (the connection is attempted, and state and
\* completed steps follow from what this run's connection and phases
\* returned), and saves to the file of the address, the one the earlier
\* occurrence saved to: when the write succeeds the file holds the record of
\* this occurrence and nothing else, whatever the earlier one left there.
\* No other step writes to the directory, and main returns only after every
\* occurrence had its run, so after the fleet run the file holds the record
\* of the last occurrence.
C24_RepeatedAddressLastRunWins ==
    [][ /\ (Len(heap') > Len(heap) /\ Repeated(Len(heap'))) =>
             /\ heap'[Len(heap')] = NewStatus(ips[Len(heap')])
             /\ executed' = <<>> /\ saves' = <<>> /\ result' = NoResult
             /\ \A j \in 1..Len(heap) : heap'[j] = heap[j]
        /\ (saves' # saves /\ saves' # <<>> /\ Repeated(Len(heap))) =>
             LET sv == saves'[Len(saves')]
                 a  == ips[Len(heap)] IN
             /\ sv.rec = heap'[Len(heap)]
             /\ sv.rec.VMIP = a
             /\ result'.conn # "none"
             /\ sv.rec.Status = ExpectedState(result')
             /\ sv.rec.CompletedSteps = ExpectedSteps(result')
             /\ sv.outcome = "ok" => disk'[a] = FullFile(MarshalIndent(sv.rec))
             /\ \A b \in Addrs \ {a} : disk'[b] = disk[b]
        /\ (saves' = saves \/ saves' = <<>>) => disk' = disk
        /\ pc' = "done" =>
             /\ Len(heap') = Len(ips)
             /\ \A j \in 1..Len(ips) : heap'[j].VMIP = ips[j] /\ Terminal(heap'[j])
             /\ (Len(ips) > 0 /\ Repeated(Len(ips)) /\ saves'[Len(saves')].outcome = "ok") =>
                    disk'[ips[Len(ips)]] = FullFile(MarshalIndent(heap'[Len(ips)]))
      ]_vars

\* The same address twice: its first run Failed, its second run Completed
\* and was saved, and after main returned the file holds the Completed
\* record.
C24_Witness ==
    /\ pc = "done"
    /\ Len(ips) = MaxHosts
    /\ Repeated(Len(ips))
    /\ heap[1].Status = "Failed"
    /\ LastRecord.Status = "Completed"
    /\ LastSaveOk
    /\ disk[LastRecord.VMIP] = FullFile(MarshalIndent(LastRecord))

(* ------------------------------------------------------------------------ *)
(* C25                                                                       *)
(* ------------------------------------------------------------------------ *)

\* The run of the j-th record got its connection: the record does not carry
\* the connection error.
Connected(j) == ~Contains(heap[j].Error, "SSH connection failed: ")

\* C25: when main has returned from the host loop, every host run has ended
\* and the connection of every run that got one has been closed, by one
\* call of Close, while a run that got none has no Close call; no deferred
\* call is left. Before main returns no Close has been called. A fatal exit
\* happens before the loop only: no record, no connection, no deferred call.
C25_EveryConnectionClosedOnceAtReturn ==
    /\ pc = "done" =>
         /\ deferred = <<>>
         /\ Len(heap) = Len(ips) /\ DOMAIN clients = 1..Len(ips)
         /\ \A j \in 1..Len(ips) :
              /\ Terminal(heap[j])
              /\ clients[j] = IF Connected(j)
                              THEN [state |-> "closed", closes |-> 1]
                              ELSE [state |-> "none", closes |-> 0]
    /\ pc # "done" =>
         \A j \in DOMAIN clients : clients[j].closes = 0 /\ clients[j].state # "closed"
    /\ pc = Fatalf =>
         /\ i = 0 /\ heap = <<>> /\ deferred = <<>>
         /\ \A j \in DOMAIN clients : clients[j].state = "none"

\* Two hosts, both connected: the first Failed in a phase, the second
\* Completed; main has returned and both connections are closed, once each.
C25_Witness ==
    /\ pc = "done"
    /\ Len(ips) = MaxHosts
    /\ heap[1].Status = "Failed" /\ Connected(1)
    /\ LastRecord.Status = "Completed"
    /\ \A j \in 1..Len(ips) : clients[j] = [state |-> "closed", closes |-> 1]

====
